---- MODULE Spec2Model ----
(***************************************************************************)
(* Rental price predictor: the training script (train_model.py) and the    *)
(* Streamlit application (app.py), as one state machine.                   *)
(*                                                                         *)
(* The training script is one sequential process: load_data,               *)
(* prepare_features, train_test_split, fit, evaluate, save_model,          *)
(* save_metrics.  The application is one server process running main()     *)
(* once per user interaction in each session; sessions run on threads and  *)
(* share the st.cache_resource / st.cache_data stores.  The two processes  *)
(* share only the files model.pkl, model_metrics.txt and the dataset CSV.  *)
(***************************************************************************)
EXTENDS Integers, Sequences, FiniteSets, TLC

(***************************************************************************)
(* Bounds of the model.                                                    *)
(***************************************************************************)
MaxRecords == 3      \* rows of a dataset CSV in the pipeline specification
MaxSplitN == 100     \* rows of a dataset in the split specification
MaxRuns == 2         \* runs of train_model.py
MaxEntropy == 1      \* values the operating system's entropy may take
NumSessions == 2     \* browser sessions of the application
MaxReads == 2        \* reads of model.pkl by the application

(***************************************************************************)
(* Program constants.                                                      *)
(***************************************************************************)
random_state == 42
test_size_den == 5   \* test_size = 0.2 = 1 / test_size_den

sklearn_version == "1.5"   \* the installed scikit-learn

NoSplit == [ok |-> FALSE, n |-> 0, test |-> <<>>, train |-> <<>>]

(***************************************************************************)
(* Data: rows of estate_rent_dataset.csv.                                  *)
(***************************************************************************)
categorical_features == <<"City", "Location", "Furnishing">>
numerical_features ==
  <<"BHK", "Size_sqft", "Bathrooms", "Floor", "Total_Floors", "Property_Age", "Parking">>

Row(c, l, b, s, ba, f, tf, fu, a, p, r) ==
  [City |-> c, Location |-> l, BHK |-> b, Size_sqft |-> s, Bathrooms |-> ba,
   Floor |-> f, Total_Floors |-> tf, Furnishing |-> fu, Property_Age |-> a,
   Parking |-> p, Rent |-> r]

RowPool ==
  << Row("Bangalore", "Whitefield", 2, 1200, 2, 3, 10, "Furnished", 5, 1, 15000),
     Row("Mumbai", "Andheri", 3, 1500, 2, 5, 10, "Semi-Furnished", 5, 1, 18000),
     Row("Bangalore", "Whitefield", 1, 600, 1, 0, 10, "Unfurnished", 2, 0, 12000),
     Row("Mumbai", "Powai", 2, 1200, 2, 3, 12, "Luxury", 8, 1, 20000) >>

\* Python orders strings by code point; the category strings in that order.
StrOrder ==
  <<"Andheri", "Bangalore", "Chennai", "Furnished", "Luxury", "Mumbai", "Powai",
    "Semi-Furnished", "Unfurnished", "Whitefield">>

Range(s) == {s[i] : i \in DOMAIN s}

VARIABLES
  csv,          \* estate_rent_dataset.csv: a sequence of rows
  modelFile,    \* model.pkl: [exists, bytes]
  metricsFile,  \* model_metrics.txt: [exists, lines]
  tpc,          \* train_model.py: position in main()
  df,           \* train_model.py: the loaded DataFrame
  split,        \* train_model.py: record indices of X_train and X_test
  model,        \* train_model.py: the Pipeline object
  y_pred,       \* train_model.py: evaluate_model's predictions on X_test
  tmetrics,     \* train_model.py: <<mae, rmse, r2>>
  runs,         \* runs of train_model.py started so far
  splitLog,     \* every train_test_split call so far (history)
  resCache,     \* app.py: st.cache_resource entry of load_model
  resLock,      \* app.py: holder of load_model's compute lock, 0 when free
  dataCache,    \* app.py: st.cache_data entry of load_metrics
  dataLock,     \* app.py: holder of load_metrics' compute lock, 0 when free
  objs,         \* app.py: the objects unpickled so far, by identity
  fileReads,    \* app.py: reads of model.pkl so far (history)
  sess          \* app.py: per session, the position and locals of main()

fileVars == <<csv, modelFile, metricsFile>>
trainVars == <<tpc, df, split, model, y_pred, tmetrics, runs, splitLog>>
appVars == <<resCache, resLock, dataCache, dataLock, objs, fileReads, sess>>
vars == <<fileVars, trainVars, appVars>>

(***************************************************************************)
(* train_test_split(X, y, test_size=0.2, random_state=42).                 *)
(* sklearn: n_test = ceil(test_size * n), n_train = n - n_test, ValueError *)
(* when n_train = 0; permutation = RandomState(seed).permutation(n); the   *)
(* test indices are permutation[:n_test], the train indices the rest.      *)
(* math.ceil(0.2 * n) equals (n + 4) div 5 for every n up to 200000 in     *)
(* IEEE double arithmetic.                                                 *)
(***************************************************************************)
n_test_of(n) == (n + test_size_den - 1) \div test_size_den

\* The generator behind RandomState: MT19937 is replaced by a small linear
\* congruential generator, x -> (75 x + 74) mod 32749; only that the stream
\* is a function of the seed is used.  An affine map x -> a x + c is the
\* pair <<a, c>>.
AffCompose(f, g) == <<(f[1] * g[1]) % 32749, (f[1] * g[2] + f[2]) % 32749>>

\* The generator's step applied k times, by repeated squaring.
RECURSIVE AffPow(_)
AffPow(k) ==
  IF k = 0 THEN <<1, 0>>
  ELSE IF k % 2 = 0
       THEN LET h == AffPow(k \div 2) IN AffCompose(h, h)
       ELSE AffCompose(<<75, 74>>, AffPow(k - 1))

\* The k-th draw of the stream seeded with seed.
Rand(seed, k) == LET f == AffPow(k) IN (f[1] * (seed % 32749) + f[2]) % 32749

Swap(x, i, j) == SubSeq([x EXCEPT ![i] = x[j], ![j] = x[i]], 1, Len(x))

\* RandomState.permutation: Fisher-Yates over arange(n), from the last
\* position down to the second: position i is swapped with a drawn position
\* of 1..i.  x is indexed 1..n and holds the record indices 0..n-1.  The
\* steps for positions hi down to lo, split in halves.
RECURSIVE Shuffle(_, _, _, _, _)
Shuffle(x, lo, hi, n, seed) ==
  IF lo > hi THEN x
  ELSE IF lo = hi
       THEN Swap(x, lo, 1 + (Rand(seed, n - lo + 1) % lo))
       ELSE LET mid == (lo + hi) \div 2
                y == Shuffle(x, mid + 1, hi, n, seed)
            IN IF Len(y) = Len(x) THEN Shuffle(y, lo, mid, n, seed) ELSE y

arange(n) == SubSeq([k \in 1..n |-> k - 1], 1, n)

Permutation(n, seed) == Shuffle(arange(n), 2, n, n, seed)

\* random_state=None would seed from the operating system's entropy.
SplitSeedNone(entropy) == entropy

\* random_state=42: a fresh RandomState(42) for every call.
SplitSeed(entropy) == random_state

train_test_split(n, entropy) ==
  LET nt == n_test_of(n)
      p == Permutation(n, SplitSeed(entropy))
  IN IF n - nt <= 0
     THEN [ok |-> FALSE, n |-> n, test |-> <<>>, train |-> <<>>]   \* ValueError
     ELSE [ok |-> TRUE, n |-> n,
           test |-> SubSeq(p, 1, nt),
           train |-> SubSeq(p, nt + 1, n)]

(***************************************************************************)
(* prepare_features: X = df without Property_ID and Rent, y = df['Rent'].  *)
(* Rows carry no Property_ID: it is dropped before anything reads it.      *)
(***************************************************************************)
FeatureNames == Range(categorical_features) \cup Range(numerical_features)

prepare_features(rows) ==
  [X |-> [k \in 1..Len(rows) |-> [c \in FeatureNames |-> rows[k][c]]],
   y |-> [k \in 1..Len(rows) |-> rows[k].Rent]]

\* The rows of a DataFrame at the record indices idx (0-based).
Take(rows, idx) == [k \in 1..Len(idx) |-> rows[idx[k] + 1]]

Column(X, c) == [k \in 1..Len(X) |-> X[k][c]]

RECURSIVE SumSeq(_)
SumSeq(xs) == IF Len(xs) = 0 THEN 0 ELSE xs[1] + SumSeq(Tail(xs))

(***************************************************************************)
(* StandardScaler.  A rational is a pair <<numerator, denominator>>.  The  *)
(* mean is sum/n and the variance (n*sum(x^2) - sum^2)/n^2; scale_ is the  *)
(* square root of scale2.  sklearn's _handle_zeros_in_scale replaces the   *)
(* scale of a constant column by 1.                                        *)
(***************************************************************************)
no_handle_zeros_in_scale(var) == var

handle_zeros_in_scale(var) == IF var[1] = 0 THEN <<1, 1>> ELSE var

StandardScaler_fit(xs) ==
  LET n == Len(xs)
      s == SumSeq(xs)
      q == SumSeq([k \in 1..n |-> xs[k] * xs[k]])
      var == <<n * q - s * s, n * n>>
  IN [mean |-> <<s, n>>, scale2 |-> handle_zeros_in_scale(var)]

\* (x - mean) / scale_ is (num/den) / sqrt(scale2); dividing by a zero scale
\* gives NaN or an infinity (fault).
StandardScaler_transform(p, x) ==
  [fault |-> p.scale2[1] = 0,
   num |-> p.mean[2] * x - p.mean[1],
   den |-> p.mean[2],
   scale2 |-> p.scale2]

IsZero(e) == ~e.fault /\ e.num = 0

(***************************************************************************)
(* OneHotEncoder(handle_unknown='ignore', sparse_output=False).            *)
(* categories_ are the sorted distinct training values.                    *)
(***************************************************************************)
handle_unknown_error == "error"

handle_unknown == "ignore"

OneHotEncoder_fit(vals) == SelectSeq(StrOrder, LAMBDA v : v \in Range(vals))

OneHotEncoder_transform(cats, v) ==
  IF v \notin Range(cats) /\ handle_unknown = "error"
  THEN [ok |-> FALSE, block |-> <<>>]      \* ValueError: unknown categories
  ELSE [ok |-> TRUE,
        block |-> [i \in 1..Len(cats) |-> IF cats[i] = v THEN 1 ELSE 0]]

(***************************************************************************)
(* create_preprocessing_pipeline: the ColumnTransformer, 'num' then 'cat'. *)
(***************************************************************************)
ColumnTransformer_fit(X) ==
  [num |-> [i \in 1..Len(numerical_features) |->
              StandardScaler_fit(Column(X, numerical_features[i]))],
   cat |-> [c \in 1..Len(categorical_features) |->
              OneHotEncoder_fit(Column(X, categorical_features[c]))]]

ColumnTransformer_transform(pre, x) ==
  LET nums == [i \in 1..Len(numerical_features) |->
                 StandardScaler_transform(pre.num[i], x[numerical_features[i]])]
      cats == [c \in 1..Len(categorical_features) |->
                 OneHotEncoder_transform(pre.cat[c], x[categorical_features[c]])]
  IN [ok |-> \A c \in DOMAIN cats : cats[c].ok,
      num |-> nums,
      cat |-> [c \in DOMAIN cats |-> cats[c].block]]

(***************************************************************************)
(* RandomForestRegressor.  The ensemble is abstracted to the mean of the   *)
(* training targets (trees of depth 0); it rejects NaN and infinities.     *)
(***************************************************************************)
RandomForestRegressor_fit(y) == [n |-> Len(y), sumY |-> SumSeq(y)]

RandomForestRegressor_predict(reg) == reg.sumY \div reg.n

(***************************************************************************)
(* train_model: Pipeline([preprocessor, regressor]).fit(X_train, y_train), *)
(* and Pipeline.predict on one record.                                     *)
(***************************************************************************)
Unfitted == [fitted |-> FALSE]

train_model(X_train, y_train, version) ==
  [fitted |-> TRUE,
   sklearn_version |-> version,
   preprocessor |-> ColumnTransformer_fit(X_train),
   regressor |-> RandomForestRegressor_fit(y_train)]

NoPrediction == [ok |-> FALSE, num |-> <<>>, cat |-> <<>>, y |-> 0]

predict(m, x) ==
  LET t == ColumnTransformer_transform(m.preprocessor, x)
  IN IF ~t.ok \/ \E i \in DOMAIN t.num : t.num[i].fault
     THEN [ok |-> FALSE, num |-> t.num, cat |-> t.cat, y |-> 0]
     ELSE [ok |-> TRUE, num |-> t.num, cat |-> t.cat,
           y |-> RandomForestRegressor_predict(m.regressor)]

(***************************************************************************)
(* pickle.dump / pickle.load of the Pipeline.  A pickle is a sequence of   *)
(* tokens: PROTO, the object's state in a fixed order, STOP.  Numbers are  *)
(* written in binary, without rounding.  sklearn's __getstate__ adds       *)
(* _sklearn_version to the state; __setstate__ compares it with the        *)
(* running version and only warns (InconsistentVersionWarning) when they   *)
(* differ.  The Pipeline carries no version field of its own.              *)
(***************************************************************************)
Op(o) == [t |-> "op", o |-> o]
Num(v) == [t |-> "int", v |-> v]
Str(x) == [t |-> "str", s |-> x]

DumpInts(xs) == <<Op("LIST"), Num(Len(xs))>> \o [k \in 1..Len(xs) |-> Num(xs[k])]
DumpStrs(xs) == <<Op("LIST"), Num(Len(xs))>> \o [k \in 1..Len(xs) |-> Str(xs[k])]

\* The scaler statistics as a flat list: mean and scale2 of each column.
ScalerInts(num) ==
  [k \in 1..(4 * Len(num)) |->
     LET p == num[(k + 3) \div 4]
         r == (k - 1) % 4
     IN IF r = 0 THEN p.mean[1] ELSE IF r = 1 THEN p.mean[2]
        ELSE IF r = 2 THEN p.scale2[1] ELSE p.scale2[2]]

ScalerOfInts(xs) ==
  [i \in 1..(Len(xs) \div 4) |->
     [mean |-> <<xs[4 * i - 3], xs[4 * i - 2]>>,
      scale2 |-> <<xs[4 * i - 1], xs[4 * i]>>]]

RECURSIVE DumpCats(_)
DumpCats(cat) == IF Len(cat) = 0 THEN <<>> ELSE DumpStrs(cat[1]) \o DumpCats(Tail(cat))

\* A pickler that writes the numbers as text rounded to thousands.
pickle_dump_lossy(m) ==
  <<Op("PROTO"), Str(m.sklearn_version)>>
  \o DumpInts([k \in 1..(4 * Len(m.preprocessor.num)) |->
                 (ScalerInts(m.preprocessor.num)[k] \div 1000) * 1000])
  \o DumpCats(m.preprocessor.cat)
  \o DumpInts(<<m.regressor.n, m.regressor.sumY>>)
  \o <<Op("STOP")>>

pickle_dump(m) ==
  <<Op("PROTO"), Str(m.sklearn_version)>>
  \o DumpInts(ScalerInts(m.preprocessor.num))
  \o DumpCats(m.preprocessor.cat)
  \o DumpInts(<<m.regressor.n, m.regressor.sumY>>)
  \o <<Op("STOP")>>

\* The items of a pickle from position pos on: [ok, items]; ok is FALSE when
\* the stream ends before STOP (EOFError) or holds an unexpected token
\* (UnpicklingError).
RECURSIVE ReadItems(_, _, _)
ReadItems(bytes, pos, acc) ==
  IF pos > Len(bytes) THEN [ok |-> FALSE, items |-> acc]
  ELSE LET tok == bytes[pos] IN
    IF tok.t = "str"
    THEN ReadItems(bytes, pos + 1, Append(acc, [kind |-> "str", xs |-> <<tok.s>>]))
    ELSE IF tok.t = "op" /\ tok.o = "STOP"
    THEN [ok |-> pos = Len(bytes), items |-> acc]
    ELSE IF tok.t = "op" /\ tok.o = "LIST"
              /\ pos + 1 <= Len(bytes) /\ bytes[pos + 1].t = "int"
    THEN LET n == bytes[pos + 1].v
             elems == SubSeq(bytes, pos + 2, pos + 1 + n)
         IN IF pos + 1 + n > Len(bytes)
               \/ \E k \in 1..n : elems[k].t = "op"
               \/ \E k2 \in 1..n : elems[k2].t # elems[1].t
            THEN [ok |-> FALSE, items |-> acc]
            ELSE ReadItems(bytes, pos + 2 + n,
                   Append(acc,
                     IF n > 0 /\ elems[1].t = "int"
                     THEN [kind |-> "ints", xs |-> [k \in 1..n |-> elems[k].v]]
                     ELSE [kind |-> "strs", xs |-> [k \in 1..n |-> elems[k].s]]))
    ELSE [ok |-> FALSE, items |-> acc]

NotLoaded == [ok |-> FALSE, obj |-> Unfitted, warned |-> FALSE]

\* pickle.load under the running sklearn version: [ok, obj, warned].
pickle_load(bytes, running) ==
  IF Len(bytes) = 0 \/ bytes[1] # Op("PROTO") THEN NotLoaded
  ELSE LET r == ReadItems(bytes, 2, <<>>)
           it == r.items
           nc == Len(categorical_features)
       IN IF ~r.ok \/ Len(it) # nc + 3 THEN NotLoaded
          ELSE IF it[1].kind # "str" \/ it[2].kind # "ints"
                  \/ Len(it[2].xs) # 4 * Len(numerical_features)
                  \/ (\E c \in 1..nc : it[2 + c].kind # "strs")
                  \/ it[nc + 3].kind # "ints" \/ Len(it[nc + 3].xs) # 2
          THEN NotLoaded
          ELSE [ok |-> TRUE,
                obj |-> [fitted |-> TRUE,
                         sklearn_version |-> it[1].xs[1],
                         preprocessor |->
                           [num |-> ScalerOfInts(it[2].xs),
                            cat |-> [c \in 1..nc |-> it[2 + c].xs]],
                         regressor |-> [n |-> it[nc + 3].xs[1],
                                        sumY |-> it[nc + 3].xs[2]]],
                warned |-> it[1].xs[1] # running]

(***************************************************************************)
(* Text.  A string is a sequence of characters; "SUP2" is the character    *)
(* superscript two and "\n" the line feed.  A metric is [nan, v] with v in *)
(* units of 10^-5; a parsed float is [nan, v] with v in units of 10^-4.   *)
(***************************************************************************)
Digits == <<"0", "1", "2", "3", "4", "5", "6", "7", "8", "9">>

RECURSIVE NatToChars(_)
NatToChars(n) ==
  IF n < 10 THEN <<Digits[n + 1]>>
  ELSE Append(NatToChars(n \div 10), Digits[(n % 10) + 1])

Abs(x) == IF x < 0 THEN -x ELSE x

\* x / unit rounded to the nearest integer, ties to even, for x >= 0.
RoundHalfEven(x, unit) ==
  LET q == x \div unit
      r == x % unit
  IN IF 2 * r > unit \/ (2 * r = unit /\ q % 2 = 1) THEN q + 1 ELSE q

\* f"{m:.2f}": two decimals.
Format2f(m) ==
  IF m.nan THEN <<"n", "a", "n">>
  ELSE LET c == RoundHalfEven(Abs(m.v), 1000)
       IN (IF m.v < 0 THEN <<"-">> ELSE <<>>)
          \o NatToChars(c \div 100) \o <<".">>
          \o <<Digits[((c \div 10) % 10) + 1], Digits[(c % 10) + 1]>>

\* f"{m:.4f}": four decimals.
Format4f(m) ==
  IF m.nan THEN <<"n", "a", "n">>
  ELSE LET c == RoundHalfEven(Abs(m.v), 10)
       IN (IF m.v < 0 THEN <<"-">> ELSE <<>>)
          \o NatToChars(c \div 10000) \o <<".">>
          \o <<Digits[((c \div 1000) % 10) + 1], Digits[((c \div 100) % 10) + 1],
               Digits[((c \div 10) % 10) + 1], Digits[(c % 10) + 1]>>

\* 'pat' in line.
Contains(line, pat) ==
  \E i \in 1..(Len(line) - Len(pat) + 1) : SubSeq(line, i, i + Len(pat) - 1) = pat

\* line.split(':')[1]: the text between the first colon and the next one
\* (or the end); ok is FALSE when the line has no colon (IndexError).
SplitColon1(line) ==
  LET colons == {i \in 1..Len(line) : line[i] = ":"}
  IN IF colons = {} THEN [ok |-> FALSE, text |-> <<>>]
     ELSE LET first == CHOOSE i \in colons : \A j \in colons : i <= j
              rest == {i \in colons : i > first}
              stop == IF rest = {} THEN Len(line) + 1
                      ELSE CHOOSE i \in rest : \A j \in rest : i <= j
          IN [ok |-> TRUE, text |-> SubSeq(line, first + 1, stop - 1)]

IsSpace(ch) == ch \in {" ", "\n", "\t"}

\* str.strip().
RECURSIVE Strip(_)
Strip(t) ==
  IF Len(t) = 0 THEN t
  ELSE IF IsSpace(t[1]) THEN Strip(Tail(t))
  ELSE IF IsSpace(t[Len(t)]) THEN Strip(SubSeq(t, 1, Len(t) - 1))
  ELSE t

\* str.replace(',', '').
RemoveCommas(t) == SelectSeq(t, LAMBDA ch : ch # ",")

DigitValue(ch) == (CHOOSE d \in 1..10 : Digits[d] = ch) - 1

RECURSIVE CharsToNat(_)
CharsToNat(t) ==
  IF Len(t) = 0 THEN 0
  ELSE 10 * CharsToNat(SubSeq(t, 1, Len(t) - 1)) + DigitValue(t[Len(t)])

AllDigits(t) == \A i \in 1..Len(t) : t[i] \in Range(Digits)

NoFloat == [ok |-> FALSE, nan |-> FALSE, v |-> 0]

\* float(text) for a decimal literal of at most four decimals, or nan; ok
\* is FALSE for anything else (ValueError).
ParseFloat(text) ==
  IF text = <<"n", "a", "n">> THEN [ok |-> TRUE, nan |-> TRUE, v |-> 0]
  ELSE LET neg == Len(text) > 0 /\ text[1] = "-"
           body == IF neg THEN Tail(text) ELSE text
           dots == {i \in 1..Len(body) : body[i] = "."}
       IN IF Cardinality(dots) > 1 THEN NoFloat
          ELSE LET dot == IF dots = {} THEN Len(body) + 1 ELSE CHOOSE i \in dots : TRUE
                   ip == SubSeq(body, 1, dot - 1)
                   fp == SubSeq(body, dot + 1, Len(body))
                   pad == fp \o SubSeq(<<"0", "0", "0", "0">>, 1, 4 - Len(fp))
               IN IF Len(ip) + Len(fp) = 0 \/ Len(fp) > 4
                     \/ ~AllDigits(ip) \/ ~AllDigits(fp)
                  THEN NoFloat
                  ELSE LET mag == 10000 * CharsToNat(ip) + CharsToNat(pad)
                       IN [ok |-> TRUE, nan |-> FALSE,
                           v |-> IF neg THEN -mag ELSE mag]

(***************************************************************************)
(* save_metrics: the five lines of model_metrics.txt.                      *)
(***************************************************************************)
HeaderLine ==
  <<"M", "o", "d", "e", "l", " ", "E", "v", "a", "l", "u", "a", "t", "i",
    "o", "n", " ", "M", "e", "t", "r", "i", "c", "s", "\n">>

RuleLine == [i \in 1..30 |-> "="] \o <<"\n">>

MAELabelNoTag ==
  <<"M", "e", "a", "n", " ", "A", "b", "s", "o", "l", "u", "t", "e", " ",
    "E", "r", "r", "o", "r", ":", " ">>

MAELabel ==
  <<"M", "e", "a", "n", " ", "A", "b", "s", "o", "l", "u", "t", "e", " ",
    "E", "r", "r", "o", "r", " ", "(", "M", "A", "E", ")", ":", " ">>

RMSELabel ==
  <<"R", "o", "o", "t", " ", "M", "e", "a", "n", " ", "S", "q", "u", "a",
    "r", "e", "d", " ", "E", "r", "r", "o", "r", " ", "(", "R", "M", "S",
    "E", ")", ":", " ">>

R2Label ==
  <<"R", "SUP2", " ", "S", "c", "o", "r", "e", ":", " ">>

metrics_lines(mae, rmse, r2) ==
  << HeaderLine,
     RuleLine,
     MAELabel \o Format2f(mae) \o <<"\n">>,
     RMSELabel \o Format2f(rmse) \o <<"\n">>,
     R2Label \o Format4f(r2) \o <<"\n">> >>

(***************************************************************************)
(* load_metrics: the dict read back from the lines.  A dict maps each of   *)
(* the three keys to [present, nan, v].  ok is FALSE when a line raises    *)
(* (IndexError, ValueError).                                               *)
(***************************************************************************)
MetricKeys == {"MAE", "RMSE", "R2"}

Absent == [present |-> FALSE, nan |-> FALSE, v |-> 0]

EmptyDict == [k \in MetricKeys |-> Absent]

SetItem(d, key, val) == [d EXCEPT ![key] = val]

LineKey(line) ==
  IF Contains(line, <<"M", "A", "E">>) THEN "MAE"
  ELSE IF Contains(line, <<"R", "M", "S", "E">>) THEN "RMSE"
  ELSE IF Contains(line, <<"R", "SUP2">>) THEN "R2"
  ELSE "none"

\* The value of one line: MAE and RMSE drop commas, R2 does not.
LineValue(line, key) ==
  LET sp == SplitColon1(line)
      txt == IF key = "R2" THEN Strip(sp.text) ELSE RemoveCommas(Strip(sp.text))
  IN IF ~sp.ok THEN NoFloat ELSE ParseFloat(txt)

RECURSIVE parse_metrics(_, _)
parse_metrics(lines, d) ==
  IF Len(lines) = 0 THEN [ok |-> TRUE, metrics |-> d]
  ELSE LET key == LineKey(lines[1])
       IN IF key = "none" THEN parse_metrics(Tail(lines), d)
          ELSE LET val == LineValue(lines[1], key)
               IN IF ~val.ok THEN [ok |-> FALSE, metrics |-> d]
                  ELSE parse_metrics(Tail(lines),
                         SetItem(d, key, [present |-> TRUE, nan |-> val.nan, v |-> val.v]))

(***************************************************************************)
(* evaluate_model's metrics.  With one test record MAE and RMSE are both   *)
(* |y - pred| and r2_score is NaN; with more they depend on the forest     *)
(* and are drawn from MetricInputs.                                        *)
(***************************************************************************)
Metric(v) == [nan |-> FALSE, v |-> v]
NaN == [nan |-> TRUE, v |-> 0]

ErrorValues == {Metric(0), Metric(499), Metric(99995), Metric(123456789), NaN}
R2Values == {Metric(91234), Metric(-2345), Metric(100000), Metric(-4), NaN}
MetricInputs == ErrorValues \X ErrorValues \X R2Values

evaluate_metrics(y_test, preds) ==
  IF Len(y_test) = 1
  THEN LET e == Metric(100000 * Abs(y_test[1] - preds[1].y)) IN {<<e, e, NaN>>}
  ELSE MetricInputs

NoMetrics == <<NaN, NaN, NaN>>

(***************************************************************************)
(* train_model.py main(): one run of the script is one process.            *)
(***************************************************************************)
load_data ==
  /\ tpc = "start"
  /\ df' = csv
  /\ tpc' = "loaded"
  /\ UNCHANGED <<fileVars, appVars, split, model, y_pred, tmetrics, runs, splitLog>>

\* prepare_features and train_test_split.
Split ==
  /\ tpc = "loaded"
  /\ \E entropy \in 0..MaxEntropy :
       LET r == train_test_split(Len(df), entropy)
       IN /\ split' = r
          /\ splitLog' = Append(splitLog, r)
          /\ tpc' = IF r.ok THEN "split" ELSE "crashed"
  /\ UNCHANGED <<fileVars, appVars, df, model, y_pred, tmetrics, runs>>

\* The split run again on the same dataset, seed and fraction.
SplitAgain ==
  /\ tpc = "split"
  /\ Len(splitLog) < MaxRuns
  /\ \E entropy \in 0..MaxEntropy :
       LET r == train_test_split(Len(df), entropy)
       IN /\ split' = r
          /\ splitLog' = Append(splitLog, r)
  /\ UNCHANGED <<fileVars, appVars, df, tpc, model, y_pred, tmetrics, runs>>

\* Fitting on every record, the test partition included.
FitIndicesAll(sp) == sp.train \o sp.test

\* The records the pipeline is fitted on: X_train, y_train.
FitIndices(sp) == sp.train

Fit ==
  /\ tpc = "split"
  /\ LET d == prepare_features(Take(df, FitIndices(split)))
     IN model' = train_model(d.X, d.y, sklearn_version)
  /\ tpc' = "fitted"
  /\ UNCHANGED <<fileVars, appVars, df, split, y_pred, tmetrics, runs, splitLog>>

\* evaluate_model: model.predict(X_test) and the three metrics; a record the
\* pipeline rejects raises out of main().
Evaluate ==
  /\ tpc = "fitted"
  /\ LET d == prepare_features(Take(df, split.test))
         p == [k \in 1..Len(d.X) |-> predict(model, d.X[k])]
     IN /\ y_pred' = p
        /\ IF \A k \in 1..Len(p) : p[k].ok
           THEN /\ tmetrics' \in evaluate_metrics(d.y, p)
                /\ tpc' = "evaluated"
           ELSE /\ tmetrics' = tmetrics
                /\ tpc' = "crashed"
  /\ UNCHANGED <<fileVars, appVars, df, split, model, runs, splitLog>>

\* save_model: open('model.pkl', 'wb') truncates the file in place.
save_model_open ==
  /\ tpc = "evaluated"
  /\ modelFile' = [exists |-> TRUE, bytes |-> <<>>]
  /\ tpc' = "dumping"
  /\ UNCHANGED <<csv, metricsFile, appVars, df, split, model, y_pred, tmetrics, runs,
                 splitLog>>

\* pickle.dump writes the stream in several writes: the first half.
save_model_write ==
  /\ tpc = "dumping"
  /\ LET b == pickle_dump(model)
     IN modelFile' = [exists |-> TRUE, bytes |-> SubSeq(b, 1, Len(b) \div 2)]
  /\ tpc' = "dumping2"
  /\ UNCHANGED <<csv, metricsFile, appVars, df, split, model, y_pred, tmetrics, runs,
                 splitLog>>

\* The rest of the stream, and the file is closed.
save_model_close ==
  /\ tpc = "dumping2"
  /\ modelFile' = [exists |-> TRUE, bytes |-> pickle_dump(model)]
  /\ tpc' = "model_saved"
  /\ UNCHANGED <<csv, metricsFile, appVars, df, split, model, y_pred, tmetrics, runs,
                 splitLog>>

\* save_metrics: open('model_metrics.txt', 'w') truncates the file; the five
\* writes stay in the buffer until the file is closed.
save_metrics_open ==
  /\ tpc = "model_saved"
  /\ metricsFile' = [exists |-> TRUE, lines |-> <<>>]
  /\ tpc' = "reporting"
  /\ UNCHANGED <<csv, modelFile, appVars, df, split, model, y_pred, tmetrics, runs,
                 splitLog>>

save_metrics_close ==
  /\ tpc = "reporting"
  /\ metricsFile' = [exists |-> TRUE,
                     lines |-> metrics_lines(tmetrics[1], tmetrics[2], tmetrics[3])]
  /\ tpc' = "done"
  /\ UNCHANGED <<csv, modelFile, appVars, df, split, model, y_pred, tmetrics, runs,
                 splitLog>>

\* train_model.py is run again: a new process.
Retrain ==
  /\ tpc \in {"done", "crashed"}
  /\ runs < MaxRuns
  /\ runs' = runs + 1
  /\ tpc' = "start"
  /\ df' = <<>>
  /\ split' = NoSplit
  /\ model' = Unfitted
  /\ y_pred' = <<>>
  /\ tmetrics' = NoMetrics
  /\ UNCHANGED <<fileVars, appVars, splitLog>>

(***************************************************************************)
(* app.py.  A cached function looks its entry up; on a miss it takes the   *)
(* function's compute lock, looks again, and only then runs the function   *)
(* and stores what it returned.  An exception stores nothing.              *)
(* cache_resource hands every caller the stored object itself.             *)
(***************************************************************************)
NoQuery == [c \in FeatureNames |-> 0]

NoOut == [status |-> "none", q |-> NoQuery, pred |-> NoPrediction]

NewSession == [pc |-> "idle", model |-> 0, metrics |-> EmptyDict, out |-> NoOut]

Sessions == DOMAIN sess

\* A browser connects: a new session.
Connect ==
  /\ Len(sess) < NumSessions
  /\ sess' = Append(sess, NewSession)
  /\ UNCHANGED <<fileVars, trainVars, resCache, resLock, dataCache, dataLock, objs,
                 fileReads>>

\* A user interaction: main() runs from the top.
Rerun(s) ==
  /\ sess[s].pc = "idle"
  /\ sess' = [sess EXCEPT ![s] = [NewSession EXCEPT !.pc = "load_model"]]
  /\ UNCHANGED <<fileVars, trainVars, resCache, resLock, dataCache, dataLock, objs,
                 fileReads>>

\* A main() that goes on with whatever load_model returned.
is_none_unchecked(m) == FALSE

\* if model is None: st.stop()
is_none(m) == m = 0

\* main() once load_model has returned m: stop, or go on to load_metrics.
AfterLoadModel(s, m) ==
  IF is_none(m)
  THEN [sess[s] EXCEPT !.model = m, !.pc = "idle", !.out = [NoOut EXCEPT !.status = "stopped"]]
  ELSE [sess[s] EXCEPT !.model = m, !.pc = "load_metrics"]

\* load_model(): the cache lookup.
load_model_lookup(s) ==
  /\ sess[s].pc = "load_model"
  /\ sess' = [sess EXCEPT ![s] =
                IF resCache.hit THEN AfterLoadModel(s, resCache.val)
                ELSE [sess[s] EXCEPT !.pc = "load_model_lock"]]
  /\ UNCHANGED <<fileVars, trainVars, resCache, resLock, dataCache, dataLock, objs,
                 fileReads>>

load_model_acquire(s) ==
  /\ sess[s].pc = "load_model_lock"
  /\ resLock = 0
  /\ resLock' = s
  /\ sess' = [sess EXCEPT ![s].pc = "load_model_compute"]
  /\ UNCHANGED <<fileVars, trainVars, resCache, dataCache, dataLock, objs, fileReads>>

\* A cache that runs the function without looking again under the lock.
CacheHitNever(c) == FALSE

\* The second lookup, under the lock.
CacheHit(c) == c.hit

\* Under the lock: the entry another thread stored meanwhile, or the body of
\* load_model: None when model.pkl does not exist, else pickle.load of it.
load_model_compute(s) ==
  /\ sess[s].pc = "load_model_compute"
  /\ resLock = s
  /\ resLock' = 0
  /\ IF CacheHit(resCache)
     THEN /\ sess' = [sess EXCEPT ![s] = AfterLoadModel(s, resCache.val)]
          /\ UNCHANGED <<resCache, objs, fileReads>>
     ELSE IF ~modelFile.exists
     THEN /\ resCache' = [hit |-> TRUE, val |-> 0]
          /\ sess' = [sess EXCEPT ![s] = AfterLoadModel(s, 0)]
          /\ UNCHANGED <<objs, fileReads>>
     ELSE /\ fileReads < MaxReads
          /\ fileReads' = fileReads + 1
          /\ LET r == pickle_load(modelFile.bytes, sklearn_version)
             IN IF r.ok
                THEN /\ objs' = Append(objs, r.obj)
                     /\ resCache' = [hit |-> TRUE, val |-> Len(objs) + 1]
                     /\ sess' = [sess EXCEPT ![s] = AfterLoadModel(s, Len(objs) + 1)]
                ELSE /\ sess' = [sess EXCEPT ![s].pc = "idle",
                                             ![s].out = [NoOut EXCEPT !.status = "crashed"]]
                     /\ UNCHANGED <<resCache, objs>>
  /\ UNCHANGED <<fileVars, trainVars, dataCache, dataLock>>

\* load_metrics(): the cache lookup.
load_metrics_lookup(s) ==
  /\ sess[s].pc = "load_metrics"
  /\ sess' = [sess EXCEPT ![s] =
                IF dataCache.hit
                THEN [sess[s] EXCEPT !.metrics = dataCache.val, !.pc = "render"]
                ELSE [sess[s] EXCEPT !.pc = "load_metrics_lock"]]
  /\ UNCHANGED <<fileVars, trainVars, resCache, resLock, dataCache, dataLock, objs,
                 fileReads>>

load_metrics_acquire(s) ==
  /\ sess[s].pc = "load_metrics_lock"
  /\ dataLock = 0
  /\ dataLock' = s
  /\ sess' = [sess EXCEPT ![s].pc = "load_metrics_compute"]
  /\ UNCHANGED <<fileVars, trainVars, resCache, resLock, dataCache, objs, fileReads>>

\* Under the lock: the stored entry, or the body of load_metrics: {} when
\* model_metrics.txt does not exist, else the dict parsed from its lines.
load_metrics_compute(s) ==
  /\ sess[s].pc = "load_metrics_compute"
  /\ dataLock = s
  /\ dataLock' = 0
  /\ IF dataCache.hit
     THEN /\ sess' = [sess EXCEPT ![s].metrics = dataCache.val, ![s].pc = "render"]
          /\ UNCHANGED dataCache
     ELSE LET r == IF metricsFile.exists THEN parse_metrics(metricsFile.lines, EmptyDict)
                   ELSE [ok |-> TRUE, metrics |-> EmptyDict]
          IN IF r.ok
             THEN /\ dataCache' = [hit |-> TRUE, val |-> r.metrics]
                  /\ sess' = [sess EXCEPT ![s].metrics = r.metrics, ![s].pc = "render"]
             ELSE /\ sess' = [sess EXCEPT ![s].pc = "idle",
                                          ![s].out = [NoOut EXCEPT !.status = "crashed"]]
                  /\ UNCHANGED dataCache
  /\ UNCHANGED <<fileVars, trainVars, resCache, resLock, objs, fileReads>>

\* get_unique_values_from_dataset: the select boxes offer the values of the
\* dataset CSV; the records a user can enter are those of the pool whose
\* categories are all on offer.
Offered(c) == Range(Column(csv, c))

Queries ==
  {q \in Range(prepare_features(RowPool).X) :
     \A i \in DOMAIN categorical_features :
        q[categorical_features[i]] \in Offered(categorical_features[i])}

\* The rest of main(): the widgets, and with the button pressed
\* model.predict(input_data) inside try/except.
render(s) ==
  /\ sess[s].pc = "render"
  /\ \/ sess' = [sess EXCEPT ![s].pc = "idle",
                             ![s].out = [NoOut EXCEPT !.status = "info"]]
     \/ \E q \in Queries :
          LET m == sess[s].model
              p == IF m \in DOMAIN objs THEN predict(objs[m], q)
                   ELSE NoPrediction       \* AttributeError, caught
          IN sess' = [sess EXCEPT ![s].pc = "idle",
                        ![s].out = [status |-> IF p.ok THEN "predicted" ELSE "error",
                                    q |-> q, pred |-> p]]
  /\ UNCHANGED <<fileVars, trainVars, resCache, resLock, dataCache, dataLock, objs,
                 fileReads>>

Train ==
  \/ load_data \/ Split \/ Fit \/ Evaluate
  \/ save_model_open \/ save_model_write \/ save_model_close
  \/ save_metrics_open \/ save_metrics_close

App ==
  \/ \E s \in Sessions : Rerun(s)
  \/ \E s \in Sessions : load_model_lookup(s)
  \/ \E s \in Sessions : load_model_acquire(s)
  \/ \E s \in Sessions : load_model_compute(s)
  \/ \E s \in Sessions : load_metrics_lookup(s)
  \/ \E s \in Sessions : load_metrics_acquire(s)
  \/ \E s \in Sessions : load_metrics_compute(s)
  \/ \E s \in Sessions : render(s)

(***************************************************************************)
(* Initial states.                                                         *)
(***************************************************************************)
TrainerAtStart ==
  /\ tpc = "start"
  /\ df = <<>>
  /\ split = NoSplit
  /\ model = Unfitted
  /\ y_pred = <<>>
  /\ tmetrics = NoMetrics
  /\ runs = 1
  /\ splitLog = <<>>

AppAtStart(n) ==
  /\ resCache = [hit |-> FALSE, val |-> 0]
  /\ resLock = 0
  /\ dataCache = [hit |-> FALSE, val |-> EmptyDict]
  /\ dataLock = 0
  /\ objs = <<>>
  /\ fileReads = 0
  /\ sess = [s \in 1..n |-> NewSession]

NoFile == [exists |-> FALSE, bytes |-> <<>>]
NoReport == [exists |-> FALSE, lines |-> <<>>]

\* A model.pkl that is no pickle.
GarbageFile == [exists |-> TRUE, bytes |-> <<Str("not a pickle")>>]

\* A model.pkl left by a training run under an older scikit-learn.
OldModel ==
  LET d == prepare_features(<<RowPool[2], RowPool[4]>>)
  IN train_model(d.X, d.y, "1.2")

OldFile == [exists |-> TRUE, bytes |-> pickle_dump(OldModel)]

\* The datasets: the rows of the pool, in order, up to MaxRecords of them.
RECURSIVE Increasing(_)
Increasing(k) ==
  IF k = 0 THEN {<<>>}
  ELSE LET shorter == Increasing(k - 1)
       IN shorter \cup
          {Append(d, i) : d \in {e \in shorter : Len(e) = k - 1}, i \in 1..Len(RowPool)}

Datasets ==
  {[k \in 1..Len(ix) |-> RowPool[ix[k]]] :
     ix \in {d \in Increasing(MaxRecords) :
               Len(d) >= 1 /\ \A k \in 1..(Len(d) - 1) : d[k] < d[k + 1]}}

(***************************************************************************)
(* The system: training runs and the application's sessions, sharing the   *)
(* files.                                                                  *)
(***************************************************************************)
Init ==
  /\ csv = SubSeq(RowPool, 1, 3)
  /\ modelFile \in {NoFile, GarbageFile, OldFile}
  /\ metricsFile = NoReport
  /\ TrainerAtStart
  /\ AppAtStart(0)

Next == Train \/ Retrain \/ Connect \/ App

Spec == Init /\ [][Next]_vars

(***************************************************************************)
(* The split specification: datasets of up to MaxSplitN rows.              *)
(***************************************************************************)
SplitDatasets ==
  {[i \in 1..n |-> RowPool[1 + (i % Len(RowPool))]] : n \in 0..MaxSplitN}

InitSplit ==
  /\ csv \in SplitDatasets
  /\ modelFile = NoFile
  /\ metricsFile = NoReport
  /\ TrainerAtStart
  /\ AppAtStart(0)

NextSplit == load_data \/ Split \/ SplitAgain

SpecSplit == InitSplit /\ [][NextSplit]_vars

(***************************************************************************)
(* The pipeline specification: every dataset, one session.                 *)
(***************************************************************************)
InitEncode ==
  /\ csv \in Datasets
  /\ modelFile = NoFile
  /\ metricsFile = NoReport
  /\ TrainerAtStart
  /\ AppAtStart(1)

NextEncode == Train \/ Retrain \/ App

SpecEncode == InitEncode /\ [][NextEncode]_vars

(***************************************************************************)
(* The report specification: a training run that has saved its model and   *)
(* is about to write its metrics, for every triple of MetricInputs, and    *)
(* one session.                                                            *)
(***************************************************************************)
ReportDataset == [i \in 1..6 |-> RowPool[1 + (i % Len(RowPool))]]

InitMetrics ==
  /\ csv = ReportDataset
  /\ df = csv
  /\ split = train_test_split(Len(csv), 0)
  /\ splitLog = <<split>>
  /\ LET d == prepare_features(Take(df, FitIndices(split)))
     IN model = train_model(d.X, d.y, sklearn_version)
  /\ LET d == prepare_features(Take(df, split.test))
     IN y_pred = [k \in 1..Len(d.X) |-> predict(model, d.X[k])]
  /\ tmetrics \in evaluate_metrics(prepare_features(Take(df, split.test)).y, y_pred)
  /\ runs = 1
  /\ tpc = "model_saved"
  /\ modelFile = [exists |-> TRUE, bytes |-> pickle_dump(model)]
  /\ metricsFile = NoReport
  /\ AppAtStart(1)

NextMetrics == save_metrics_open \/ save_metrics_close \/ App

SpecMetrics == InitMetrics /\ [][NextMetrics]_vars

(***************************************************************************)
(* Properties.                                                             *)
(***************************************************************************)
Indices(seq) == Range(seq)

\* C4: every split partitions the record indices 0..n-1 into a train and a
\* test part that share no index and hold each index once, the test part
\* has 20 indices when n = 100, and two splits of datasets of the same size
\* give the same test and train indices.
C4_SplitPartitionDeterministic ==
  /\ \A k \in DOMAIN splitLog :
       LET r == splitLog[k] IN
         r.ok =>
           /\ Indices(r.train) \cap Indices(r.test) = {}
           /\ Indices(r.train) \cup Indices(r.test) = 0..(r.n - 1)
           /\ Len(r.train) + Len(r.test) = r.n
           /\ (r.n = 100 => Len(r.test) = 20)
  /\ \A j, k \in DOMAIN splitLog :
       splitLog[j].n = splitLog[k].n => splitLog[j] = splitLog[k]

\* Two splits of a dataset of 100 records have been made.
C4_Witness ==
  /\ Len(splitLog) >= 2
  /\ splitLog[1].n = 100
  /\ splitLog[2].n = 100
  /\ Len(splitLog[2].test) = 20

\* The records of X_test, and of the train partition of a dataset.
TestX == prepare_features(Take(df, split.test)).X

TrainX == prepare_features(Take(df, split.train)).X

\* What the application's objects were fitted on: the train partition of
\* the dataset CSV.
CsvTrainX ==
  prepare_features(Take(csv, train_test_split(Len(csv), 0).train)).X

\* The sessions whose last run showed the outcome of model.predict.
Predicted == {s \in Sessions : sess[s].out.status \in {"predicted", "error"}}

BlockOK(basis, v, block) ==
  /\ Len(block) = Len(basis)
  /\ \A i \in DOMAIN block : block[i] \in {0, 1}
  /\ IF v \in Range(basis)
     THEN /\ Cardinality({i \in DOMAIN block : block[i] = 1}) = 1
          /\ \A i \in DOMAIN block : block[i] = 1 <=> basis[i] = v
     ELSE \A i \in DOMAIN block : block[i] = 0

EncodedOK(m, x, p) ==
  /\ p.ok
  /\ \A c \in DOMAIN categorical_features :
       BlockOK(m.preprocessor.cat[c], x[categorical_features[c]], p.cat[c])

\* C1: every record the pipeline transforms, in evaluate_model and in the
\* application, is transformed without an exception and a prediction is
\* returned; each categorical block has the length of its basis, with a
\* single 1 at the position of the record's value when the value is in the
\* basis and only zeros when it is not.
C1_UnknownCategoryAllZero ==
  /\ \A k \in DOMAIN y_pred : EncodedOK(model, TestX[k], y_pred[k])
  /\ \A s \in Predicted :
       /\ sess[s].out.status = "predicted"
       /\ EncodedOK(objs[sess[s].model], sess[s].out.q, sess[s].out.pred)

\* The application returned a prediction for a record with a category the
\* model has not seen.
C1_Witness ==
  \E s \in Predicted :
    /\ sess[s].out.status = "predicted"
    /\ \E c \in DOMAIN categorical_features :
         sess[s].out.q[categorical_features[c]]
            \notin Range(objs[sess[s].model].preprocessor.cat[c])

IsConstant(xs) == \A a, b \in DOMAIN xs : xs[a] = xs[b]

ConstantColumns(X) ==
  {i \in DOMAIN numerical_features : IsConstant(Column(X, numerical_features[i]))}

\* C2 as stated: a column that is constant in the train partition encodes
\* to 0 for every record, without a fault.
C2_ConstantColumnEncodesZero ==
  /\ \A k \in DOMAIN y_pred :
       \A i \in ConstantColumns(TrainX) : IsZero(y_pred[k].num[i])
  /\ \A s \in Predicted :
       \A i \in ConstantColumns(CsvTrainX) : IsZero(sess[s].out.pred.num[i])

\* The encoded value p of input x is x - c, without a fault.
IsOffset(p, x, c) ==
  /\ ~p.fault
  /\ p.scale2 = <<1, 1>>
  /\ p.num = p.den * (x - c)

\* C2 as amended: a column that is constant in the train partition, with
\* value c, encodes input x to x - c (the scale is 1), without a fault: 0
\* exactly for the inputs equal to c.
C2_ConstantColumnEncodesOffset ==
  /\ \A k \in DOMAIN y_pred :
       \A i \in ConstantColumns(TrainX) :
         LET col == numerical_features[i] IN
           /\ IsOffset(y_pred[k].num[i], TestX[k][col], TrainX[1][col])
           /\ (IsZero(y_pred[k].num[i]) <=> TestX[k][col] = TrainX[1][col])
  /\ \A s \in Predicted :
       \A i \in ConstantColumns(CsvTrainX) :
         LET col == numerical_features[i] IN
           /\ IsOffset(sess[s].out.pred.num[i], sess[s].out.q[col], CsvTrainX[1][col])
           /\ (IsZero(sess[s].out.pred.num[i])
                 <=> sess[s].out.q[col] = CsvTrainX[1][col])

\* The application predicted for a record whose value in a column that was
\* constant in training differs from the constant.
C2_Witness ==
  \E s \in Predicted :
    /\ sess[s].out.status = "predicted"
    /\ \E i \in ConstantColumns(CsvTrainX) :
         sess[s].out.q[numerical_features[i]] # CsvTrainX[1][numerical_features[i]]

\* C3: from the fit on, through evaluate_model, the saves and every
\* prediction of the application, the categorical bases and the (mean,
\* scale) of every pipeline are those of the train partition alone.
C3_FittedOnTrainFrozen ==
  /\ model.fitted => model.preprocessor = ColumnTransformer_fit(TrainX)
  /\ \A id \in DOMAIN objs : objs[id].preprocessor = ColumnTransformer_fit(CsvTrainX)

\* The run has evaluated and saved a model whose test partition holds a
\* category the train partition lacks, and the application has predicted.
C3_Witness ==
  /\ tpc = "done"
  /\ \E k \in DOMAIN TestX : \E c \in DOMAIN categorical_features :
       TestX[k][categorical_features[c]] \notin Range(model.preprocessor.cat[c])
  /\ \E s \in Predicted : sess[s].out.status = "predicted"

\* C7: the pickle of a fitted pipeline loads to a pipeline with the same
\* bases, statistics and estimator parameters, which predicts the same for
\* every record; so does the file save_model wrote, and every object the
\* application loaded.
C7_PickleRoundTrip ==
  /\ model.fitted =>
       LET r == pickle_load(pickle_dump(model), sklearn_version) IN
         /\ r.ok
         /\ r.obj = model
         /\ \A q \in Range(prepare_features(RowPool).X) :
              predict(r.obj, q) = predict(model, q)
  /\ tpc \in {"model_saved", "reporting", "done"} =>
       pickle_load(modelFile.bytes, sklearn_version).obj = model
  /\ \A id \in DOMAIN objs :
       /\ objs[id].preprocessor = ColumnTransformer_fit(CsvTrainX)
       /\ objs[id].regressor =
            RandomForestRegressor_fit(
              prepare_features(Take(csv, train_test_split(Len(csv), 0).train)).y)

\* The application predicts with an object loaded from the file a finished
\* training run saved.
C7_Witness ==
  /\ tpc = "done"
  /\ \E s \in Predicted : sess[s].out.status = "predicted" /\ objs # <<>>

\* The value float() reads back from a metric written with two, and with
\* four, decimals.
Round2(m) ==
  IF m.nan THEN [present |-> TRUE, nan |-> TRUE, v |-> 0]
  ELSE LET c == 100 * RoundHalfEven(Abs(m.v), 1000)
       IN [present |-> TRUE, nan |-> FALSE, v |-> IF m.v < 0 THEN -c ELSE c]

Round4(m) ==
  IF m.nan THEN [present |-> TRUE, nan |-> TRUE, v |-> 0]
  ELSE LET c == RoundHalfEven(Abs(m.v), 10)
       IN [present |-> TRUE, nan |-> FALSE, v |-> IF m.v < 0 THEN -c ELSE c]

ExpectedMetrics ==
  [k \in MetricKeys |->
     IF k = "MAE" THEN Round2(tmetrics[1])
     ELSE IF k = "RMSE" THEN Round2(tmetrics[2])
     ELSE Round4(tmetrics[3])]

\* C10: the report save_metrics wrote has five lines of which the last
\* three, and only they, are read as MAE, RMSE and R2 in this order;
\* load_metrics on it returns the three keys, each bound to the value of
\* its own line (MAE and RMSE to two decimals, R2 to four); and every dict
\* the application holds is that one, or the empty dict of a call made
\* before the report was complete.
C10_MetricsRoundTrip ==
  /\ tpc = "done" =>
       LET lines == metricsFile.lines
           r == parse_metrics(lines, EmptyDict)
       IN /\ Len(lines) = 5
          /\ [i \in 1..5 |-> LineKey(lines[i])] = <<"none", "none", "MAE", "RMSE", "R2">>
          /\ r.ok
          /\ \A k \in MetricKeys : r.metrics[k].present
          /\ r.metrics = ExpectedMetrics
  /\ \A s \in Sessions : sess[s].metrics \in {EmptyDict, ExpectedMetrics}
  /\ dataCache.val \in {EmptyDict, ExpectedMetrics}

\* The application holds the dict read from a finished report with an MAE
\* of more than 1000 and a negative R2.
C10_Witness ==
  /\ tpc = "done"
  /\ \E s \in Sessions :
       /\ sess[s].pc = "render"
       /\ sess[s].metrics = ExpectedMetrics
       /\ sess[s].metrics["MAE"].v > 10000000
       /\ sess[s].metrics["R2"].v < 0

\* The sessions whose call of load_model has returned.
Returned ==
  {s \in Sessions :
     \/ sess[s].pc \in {"load_metrics", "load_metrics_lock", "load_metrics_compute", "render"}
     \/ sess[s].out.status \in {"stopped", "info", "predicted", "error"}}

\* C5 as stated: model.pkl is read at most once, and every caller receives
\* the same object.
C5_FileReadAtMostOnce ==
  /\ fileReads <= 1
  /\ \A s, t \in Returned : sess[s].model = sess[t].model

\* C5 as amended: model.pkl is read successfully at most once (a read that
\* raises is not memoized, and the next call reads again), and every call
\* that returns gives the memoized value: the handle of the one loaded
\* object, or None.
C5_LoadedAtMostOnce ==
  /\ Len(objs) <= 1
  /\ Len(objs) <= fileReads
  /\ \A s \in Returned :
       /\ resCache.hit
       /\ sess[s].model = resCache.val
       /\ sess[s].model \in 0..Len(objs)

\* Two sessions hold the handle of the same object, loaded by the second
\* read of the file after a first read that raised.
C5_Witness ==
  /\ fileReads = 2
  /\ \E s, t \in Returned : s # t /\ sess[s].model = 1 /\ sess[t].model = 1

\* model.pkl holds a complete pickle.
Complete(f) == f.exists /\ pickle_load(f.bytes, sklearn_version).ok

\* C6: no step takes model.pkl from a complete artifact to anything but a
\* complete artifact.
C6_ArtifactSwappedWhole == [][Complete(modelFile) => Complete(modelFile')]_vars

\* C8: every object load_model gave a handle to was pickled under the
\* running version.
C8_IncompatibleVersionRejected ==
  \A id \in DOMAIN objs : objs[id].sklearn_version = sklearn_version

\* The sessions that went on past the check of load_model's result.
PastLoad ==
  {s \in Sessions :
     \/ sess[s].pc \in {"load_metrics", "load_metrics_lock", "load_metrics_compute", "render"}
     \/ sess[s].out.status \in {"info", "predicted", "error"}}

\* C9: a session gets past the check of load_model's result, and to
\* model.predict, only with the handle of a loaded object; a session whose
\* load_model returned None has stopped; and once None is memoized no
\* session gets past the check.
C9_NoPredictionWithoutModel ==
  /\ \A s \in PastLoad : sess[s].model \in DOMAIN objs
  /\ \A s \in Predicted : sess[s].out.pred = predict(objs[sess[s].model], sess[s].out.q)
  /\ \A s \in Sessions :
       sess[s].out.status = "stopped" => sess[s].model = 0 /\ sess[s].pc = "idle"
  /\ \A s \in Returned : sess[s].model = 0 => sess[s].out.status = "stopped"
  /\ (resCache.hit /\ resCache.val = 0) => PastLoad = {}

\* A session has stopped for want of a model, and stays stopped although a
\* training run has since saved one.
C9_Witness ==
  /\ Complete(modelFile)
  /\ \E s \in Sessions : sess[s].out.status = "stopped"

====
